---- MODULE Spec2Model ----
(***************************************************************************)
(* Session-credential lifecycle of link_boost_ujjawal: the Credential      *)
(* Store (login.py cookie helpers), the Challenge Waiter, the Login        *)
(* Orchestrator login_and_get_driver and its callers login.main and        *)
(* logout.main.                                                            *)
(*                                                                         *)
(* Time is counted in half seconds (clock2, exp2) so that the truncations  *)
(* int(time.time()) and int(expiry) of the source are real conversions.    *)
(* Not modelled: operator interrupts (KeyboardInterrupt) other than the    *)
(* one that ends login.main, a failing driver.quit() and a failing         *)
(* os.remove (the source swallows both failures).                          *)
(***************************************************************************)
EXTENDS Integers, Sequences, FiniteSets, TLC

\* ------------------------------------------------------------------ bounds
MaxTime == 1
MaxRuns == 2
MaxProfiles == 2
MaxSend == 2
MaxMakeRuns == 2
MaxScraped == 2
MaxDays == 1
MaxWithdraw == 1
MaxWithdrawRuns == 2
MaxPages == 4
MaxN == 2
MaxAttempts == 3

MaxClock2 == 2 * MaxTime
ExpNums == 0 .. (2 * MaxTime + 1)

\* ------------------------------------------------------------------ data
\* The value stored under "li_at" in a token file (login.py:152-157).
\*   kind  : "missing" (no li_at key), "nondict" (not a JSON object), "dict"
\*   val   : "absent" (no "value" key) or the bearer string
\*   expKind: "none" (no expiry key), "str" (a non-number), "inf" (the float
\*            Infinity json.load accepts), "num" (a finite number, exp2 half seconds)
MkCookie(k, v, ek, e) == [kind |-> k, val |-> v, expKind |-> ek, exp2 |-> e]
NoCookie == MkCookie("missing", "absent", "none", 0)

StoredCookies ==
    {NoCookie, MkCookie("nondict", "absent", "none", 0), MkCookie("dict", "absent", "none", 0)}
    \cup {MkCookie("dict", "A", ek, 0) : ek \in {"none", "str", "inf"}}
    \cup {MkCookie("dict", "A", "num", e) : e \in ExpNums}

\* A parsed JSON document: shape "null" is Python None, "list" stands for every
\* top level that is not an object, "dict" is an object.
MkData(s, c) == [shape |-> s, li_at |-> c]
NoneData == MkData("null", NoCookie)
ListData == MkData("list", NoCookie)
DataVals == {NoneData, ListData} \cup {MkData("dict", c) : c \in StoredCookies}

\* The plaintext token file cookies.json (login.py:38).
MkFile(s, d) == [st |-> s, data |-> d]
MissingFile == MkFile("missing", NoneData)
PlainFiles ==
    {MissingFile, MkFile("unreadable", NoneData), MkFile("malformed", NoneData)}
    \cup {MkFile("json", d) : d \in DataVals}

\* An encrypted token file (login.py:39-43, 129-137).
\*   st: "missing"; "garbage" (unreadable, not JSON, not an object, bad base64);
\*       "emptyfields" (an object lacking s, n or ct); "tampered" (tag mismatch);
\*       "blob" (an intact AES-GCM blob made with secret `key` holding `data`)
MkEnc(s, k, d) == [st |-> s, key |-> k, data |-> d]
MissingEnc == MkEnc("missing", 0, NoneData)
ValidTokenData == MkData("dict", MkCookie("dict", "A", "none", 0))
EncFirst ==
    {MissingEnc, MkEnc("garbage", 0, NoneData), MkEnc("emptyfields", 0, NoneData),
     MkEnc("tampered", 1, ValidTokenData), MkEnc("blob", 2, ValidTokenData)}
    \cup {MkEnc("blob", 1, d) : d \in DataVals}
EncSecond == {MissingEnc, MkEnc("garbage", 0, NoneData), MkEnc("blob", 1, ValidTokenData)}

\* The token files a script may find: every plaintext file without an encrypted
\* one, every encrypted file under the first name with no, a valid or an expired
\* plaintext token beside it, and the alternate name alone or behind the first.
ExpiredTokenData == MkData("dict", MkCookie("dict", "A", "num", 0))
BesideEncrypted ==
    {MissingFile, MkFile("json", ValidTokenData), MkFile("json", ExpiredTokenData)}
StoreStates ==
    {<<(<<MissingEnc, MissingEnc>>), p>> : p \in PlainFiles}
    \cup {<<(<<e, MissingEnc>>), p>> : e \in EncFirst \ {MissingEnc}, p \in BesideEncrypted}
    \cup {<<(<<MissingEnc, e>>), p>> : e \in EncSecond \ {MissingEnc}, p \in BesideEncrypted}
    \cup {<<(<<MkEnc("garbage", 0, NoneData), MkEnc("blob", 1, ValidTokenData)>>), MissingFile>>}

\* DECRYPT_KEY (login.py:127): 0 is unset or empty, otherwise the secret.
DecryptKeys == {0, 1}

\* ------------------------------------------------------------------ Credential Store
\* int() of a non-negative number given in half seconds.
IntOf(x2) == x2 \div 2

\* any(os.path.exists(p) for p in ENCRYPTED_COOKIE_FILES)
EncExists(encs) == \E i \in 1..2 : encs[i].st # "missing"

\* next((p for p in ENCRYPTED_COOKIE_FILES if os.path.exists(p)), None)
TargetPath(encs) ==
    IF encs[1].st # "missing" THEN 1 ELSE IF encs[2].st # "missing" THEN 2 ELSE 0

\* The try block of the read: the decrypted document, or None when there is no
\* encrypted file, no secret, an incomplete payload or any exception.
DecryptedData(encs, key) ==
    LET t == TargetPath(encs) IN
    IF t = 0 \/ key = 0 THEN NoneData
    ELSE IF encs[t].st = "blob" /\ encs[t].key = key THEN encs[t].data
    ELSE NoneData

MkRead(k, c, x) == [kind |-> k, cookie |-> c, expired |-> x]
ReadAbsent == MkRead("absent", NoCookie, FALSE)
ReadRaise == MkRead("raise", NoCookie, FALSE)

\* The expiry test as it would be with < for <=.
ExpiredBranchStrict(cookie, now) == IntOf(cookie.exp2) < now

\* int(expiry) <= now  (login.py:160)
ExpiredBranch(cookie, now) == IntOf(cookie.exp2) <= now

\* Lines 152-165 on a document `data` at integer time `now`.

ClassifyData(data, now) ==
    IF data.shape # "dict" THEN ReadRaise
    ELSE LET cookie == data.li_at IN
         IF cookie.kind # "dict" \/ cookie.val = "absent" THEN ReadAbsent
         ELSE IF cookie.expKind = "inf" THEN ReadRaise
         ELSE IF cookie.expKind = "num" /\ ExpiredBranch(cookie, now)
              THEN MkRead("token", cookie, TRUE)
         ELSE MkRead("token", cookie, FALSE)

\* The plaintext document the read falls back to when data is None.
PlainFallback(plain, now) ==
    IF plain.st # "json" THEN ReadAbsent ELSE ClassifyData(plain.data, now)

\* The read as it would be if cookies.json were looked at before the encrypted file.
ReadDiskPlainFirst(encs, plain, key, now) ==
    IF plain.st = "json" THEN ClassifyData(plain.data, now)
    ELSE LET data == DecryptedData(encs, key) IN
         IF data = NoneData THEN ReadAbsent ELSE ClassifyData(data, now)

\* _read_session_cookie_from_disk: (cookie, expired), or kind "raise" when an
\* exception leaves the function. (None, False) is ReadAbsent.
ReadDisk(encs, plain, key, now) ==
    LET data == DecryptedData(encs, key) IN
    IF data = NoneData THEN PlainFallback(plain, now) ELSE ClassifyData(data, now)

\* The operator's answer at the prompt, a sequence of characters.
Answers ==
    {<<>>, <<"y">>, <<"Y", "e", "S">>, <<" ", "y", " ">>, <<"n">>, <<"y", "e">>}

\* str.lower() on one character.
LowerChar(c) == CASE c = "Y" -> "y" [] c = "E" -> "e" [] c = "S" -> "s" [] c = "N" -> "n"
                  [] c = "O" -> "o" [] OTHER -> c
Lower(s) == [i \in 1..Len(s) |-> LowerChar(s[i])]

\* str.strip(): leading and trailing blanks removed.
RECURSIVE StripLeft(_)
StripLeft(s) == IF s # <<>> /\ Head(s) = " " THEN StripLeft(Tail(s)) ELSE s
RECURSIVE StripRight(_)
StripRight(s) ==
    IF s # <<>> /\ s[Len(s)] = " " THEN StripRight(SubSeq(s, 1, Len(s) - 1)) ELSE s
Strip(s) == StripRight(StripLeft(s))

\* str(answer).strip().lower() in {"y", "yes"}  (login.py:181)
Confirms(answer) == Strip(Lower(answer)) \in {<<"y">>, <<"y", "e", "s">>}

\* input(...) at login.py:177-180: the text typed, or "" when input raises.
PromptAnswer(prompt) == IF prompt.raised THEN <<>> ELSE prompt.text
Prompts == {[raised |-> TRUE, text |-> <<>>]} \cup {[raised |-> FALSE, text |-> a] : a \in Answers}

\* How open(COOKIE_FILE, "w") / json.dump end: "ok", "open_fails" (the file is
\* untouched) or "dump_fails" (the file was truncated and is left incomplete).
WriteIO == {"ok", "open_fails", "dump_fails"}

\* The write as it would be if only cookies.json.encrypted were looked for.
WriteDiskFirstNameOnly(encs, plain, cookie, prompt, io) ==
    IF encs[1].st # "missing" THEN plain
    ELSE IF ~Confirms(PromptAnswer(prompt)) THEN plain
    ELSE CASE io = "ok" -> MkFile("json", MkData("dict", cookie))
           [] io = "open_fails" -> plain
           [] OTHER -> MkFile("malformed", NoneData)

\* The write as it would be if an empty answer counted as yes.
WriteDiskDefaultYes(encs, plain, cookie, prompt, io) ==
    IF EncExists(encs) THEN plain
    ELSE IF ~(Confirms(PromptAnswer(prompt)) \/ PromptAnswer(prompt) = <<>>) THEN plain
    ELSE CASE io = "ok" -> MkFile("json", MkData("dict", cookie))
           [] io = "open_fails" -> plain
           [] OTHER -> MkFile("malformed", NoneData)

\* _write_session_cookie_to_disk: the plaintext file afterwards. It never raises.
WriteDisk(encs, plain, cookie, prompt, io) ==
    IF EncExists(encs) THEN plain
    ELSE IF ~Confirms(PromptAnswer(prompt)) THEN plain
    ELSE CASE io = "ok" -> MkFile("json", MkData("dict", cookie))
           [] io = "open_fails" -> plain
           [] OTHER -> MkFile("malformed", NoneData)

\* os.remove(COOKIE_FILE) guarded by os.path.exists.
RemoveIfExists(plain) == IF plain.st # "missing" THEN MissingFile ELSE plain

\* _delete_cookie_file_if_exists: both try blocks touch cookies.json only.
DeleteCookieFileIfExists(encs, plain) ==
    LET p1 == RemoveIfExists(plain) IN
    IF EncExists(encs) THEN RemoveIfExists(p1) ELSE p1

\* logout.delete_cookie_file
DeleteCookieFile(plain) == RemoveIfExists(plain)

\* _save_current_session_cookie builds to_store from the browser's li_at cookie:
\* the expiry is kept only when numeric, as int(expiry).
ToStore(session) ==
    IF session.expKind = "num"
    THEN MkCookie("dict", session.val, "num", 2 * IntOf(session.exp2))
    ELSE MkCookie("dict", session.val, "none", 0)

\* ------------------------------------------------------------------ state
VARIABLES
    encFiles,     \* <<cookies.json.encrypted, cookies.json.encrypt>>
    plainFile,    \* cookies.json
    decryptKey,   \* DECRYPT_KEY of the environment
    clock2,       \* time.time() in half seconds
    pc,           \* position of the running script
    caller,       \* the script that called login_and_get_driver, known once the call ends
    runs,         \* calls of login_and_get_driver started so far
    drivers,      \* the browser sessions the running script built: "open" or "quit"
    driver,       \* the local variable driver of login_and_get_driver (0: none)
    url,          \* driver.current_url: "none", "normal", "chal", "chalV2"
    chalRet,      \* where _handle_challenge_if_present returns to
    cookie,       \* the local variable cookie of _try_cookie_login
    result,       \* how login_and_get_driver ended: "none", "returned", "raised"
    err,          \* the error it raised
    ret,          \* return code of main (-1: none yet)
    readRes,      \* what the last _read_session_cookie_from_disk gave, and when
    injected,     \* the token handed to driver.add_cookie in this call
    cookieFailed, \* a cookie login with a valid token failed verification
    cookieDriver, \* the session the cookie login ran in
    credDriver,   \* the session the credential login ran in
    built,        \* sessions built by the current call
    landmark,     \* global-nav after the form was submitted: "none", "seen", "missed"
    lastWrite,    \* the last call of _write_session_cookie_to_disk
    cred,         \* EMAIL and PASSWORD as this call read them, and what the form did
    cookieLogin,  \* what _try_cookie_login returned: "none", "succeeded", "failed"
    capture       \* what driver.get_cookies gave _save_current_session_cookie

loginVars == <<encFiles, plainFile, decryptKey, clock2, pc, caller, runs, drivers, driver, url,
               chalRet, cookie, result, err, ret, readRes, injected, cookieFailed, cookieDriver,
               credDriver, built, landmark, lastWrite, cred, cookieLogin, capture>>

\* make_connections.main
VARIABLES
    mkPc,            \* "off", "start", "loop", "ended"
    mkDisk,          \* scraped_connections.json
    profiles,        \* the list main loaded and updates
    mkIdx,           \* position of the for loop
    sent_count,
    processed,
    send_max,
    verified_choice,
    mkRuns,          \* runs of the script started so far
    mkRet,           \* how the run ended: -1 none yet, 0, 1, 2 (an exception left main)
    mkLog,           \* per profile, what process_profile gave in this run
    mkTimes          \* per profile, how often it was processed over all runs

mkVars == <<mkPc, mkDisk, profiles, mkIdx, sent_count, processed, send_max, verified_choice,
            mkRuns, mkRet, mkLog, mkTimes>>

\* The script is not running and has no data.
MakeIdle ==
    /\ mkPc = "off"
    /\ mkDisk = <<>>
    /\ profiles = <<>>
    /\ mkIdx = 0
    /\ sent_count = 0
    /\ processed = 0
    /\ send_max = 0
    /\ verified_choice = "any"
    /\ mkRuns = 0
    /\ mkRet = -1
    /\ mkLog = <<>>
    /\ mkTimes = <<>>

\* withdraw_connections.main
VARIABLES
    wdPc,                \* "off", "start", "loop", "ended"
    wdDisk,              \* scraped_connections.json
    scraped_data,        \* the list main loaded and updates
    eligible_indices,
    wdPos,               \* position of the for loop in eligible_indices
    withdrawn_count,
    withdraw_max,
    withdraw_after_days,
    wdRuns,              \* runs of the script started so far
    wdRet,               \* how the run ended: -1 none yet, 0, 1, 2 (an exception left main)
    wdLog,               \* per profile, how its attempt of this run went
    wdTried,             \* per profile, the attempts made on it over all runs
    wdDirty              \* the last save_json_file failed

wdVars == <<wdPc, wdDisk, scraped_data, eligible_indices, wdPos, withdrawn_count, withdraw_max,
            withdraw_after_days, wdRuns, wdRet, wdLog, wdTried, wdDirty>>

\* The script is not running and has no data.
WithdrawIdle ==
    /\ wdPc = "off"
    /\ wdDisk = <<>>
    /\ scraped_data = <<>>
    /\ eligible_indices = <<>>
    /\ wdPos = 0
    /\ withdrawn_count = 0
    /\ withdraw_max = 0
    /\ withdraw_after_days = 0
    /\ wdRuns = 0
    /\ wdRet = -1
    /\ wdLog = <<>>
    /\ wdTried = <<>>
    /\ wdDirty = FALSE

\* scrape_connections.scrape
VARIABLES
    scPc,              \* "off", "start", "login", "first", "pages", "ended"
    headless,          \* the toggle of scrape_connections.py
    scBrowser,         \* the browser _ensure_logged_in_driver obtained: "none", "open", "quit"
    scDriver,          \* the local variable driver of scrape is set
    scrape_pages,
    page,              \* the page the for loop is at
    empty_page_count,
    pageLog,           \* per page scraped, processed_in_page and whether the HTML was saved
    scEnd,             \* how scrape ended: "none", "complete", "early", "raised"
    scErr              \* the step that raised

scVars == <<scPc, headless, scBrowser, scDriver, scrape_pages, page, empty_page_count, pageLog,
            scEnd, scErr>>

\* The script is not running.
ScrapeIdle ==
    /\ scPc = "off"
    /\ headless = TRUE
    /\ scBrowser = "none"
    /\ scDriver = FALSE
    /\ scrape_pages = 0
    /\ page = 0
    /\ empty_page_count = 0
    /\ pageLog = <<>>
    /\ scEnd = "none"
    /\ scErr = "none"

\* timing.generate_times
VARIABLES
    tmPc,        \* "off", "loop", "returned", "raised"
    tmN,         \* the argument n
    times,       \* the list of (minute, hour) pairs
    attempts

tmVars == <<tmPc, tmN, times, attempts>>

\* The function is not running.
TimesIdle ==
    /\ tmPc = "off"
    /\ tmN = 0
    /\ times = <<>>
    /\ attempts = 0

toolVars == <<mkVars, wdVars, scVars, tmVars>>
ToolsIdle == MakeIdle /\ WithdrawIdle /\ ScrapeIdle /\ TimesIdle

vars == <<loginVars, toolVars>>

store == <<encFiles, plainFile, decryptKey>>
hist == <<readRes, injected, cookieFailed, cookieDriver, credDriver, landmark, lastWrite,
          cred, cookieLogin, capture>>

Callers == {"lib", "login_main", "logout_main", "withdraw_main"}
ChallengeUrls == {"chal", "chalV2"}
Urls == {"normal"} \cup ChallengeUrls

\* int(time.time())
Now == IntOf(clock2)

NoRead == [kind |-> "none", cookie |-> NoCookie, expired |-> FALSE, at |-> 0, enc |-> FALSE,
           plain |-> "missing"]
NoWrite == [called |-> FALSE, enc |-> FALSE, prompt |-> [raised |-> TRUE, text |-> <<>>],
            changed |-> FALSE, io |-> "none"]
NoCred == [read |-> FALSE, email |-> FALSE, password |-> FALSE, form |-> FALSE,
           stepRaised |-> FALSE]

LoginStart ==
    /\ \E ss \in StoreStates :
          /\ encFiles = ss[1]
          /\ plainFile = ss[2]
    /\ decryptKey \in DecryptKeys
    /\ clock2 = 0
    /\ pc = "idle"
    /\ caller = "none"
    /\ runs = 0
    /\ drivers = <<>>
    /\ driver = 0
    /\ url = "none"
    /\ chalRet = "none"
    /\ cookie = NoCookie
    /\ result = "none"
    /\ err = "none"
    /\ ret = -1
    /\ readRes = NoRead
    /\ injected = NoCookie
    /\ cookieFailed = FALSE
    /\ cookieDriver = 0
    /\ credDriver = 0
    /\ built = 0
    /\ landmark = "none"
    /\ lastWrite = NoWrite
    /\ cred = NoCred
    /\ cookieLogin = "none"
    /\ capture = "none"

Init == LoginStart /\ ToolsIdle

\* No login script runs: the start of one on a machine with no token file.
LoginIdle ==
    /\ LoginStart
    /\ encFiles = <<MissingEnc, MissingEnc>>
    /\ plainFile = MissingFile
    /\ decryptKey = 0

\* driver.quit() on session d
Quit(ds, d) == [ds EXCEPT ![d] = "quit"]

\* ------------------------------------------------------------------ login_and_get_driver
\* A script starts and calls login_and_get_driver; _build_driver (line 346) gives a
\* new session or raises, in which case there is no session.
BuildDriver ==
    /\ pc = "idle"
    /\ UNCHANGED toolVars
    /\ runs < MaxRuns
    /\ \E launched \in BOOLEAN :
        /\ runs' = runs + 1
        /\ IF launched
           THEN /\ drivers' = Append(drivers, "open")
                /\ driver' = Len(drivers) + 1
                /\ built' = 1
                /\ pc' = "try_cookie"
                /\ UNCHANGED <<result, err>>
           ELSE /\ driver' = 0
                /\ built' = 0
                /\ pc' = "done"
                /\ result' = "raised"
                /\ err' = "launch"
                /\ UNCHANGED drivers
    /\ UNCHANGED <<store, clock2, caller, url, chalRet, cookie, ret, hist>>

\* The fall-through as it would be if the session were closed and another built.
AfterCookieLoginRebuild(ds, d) ==
    [drivers |-> Append(Quit(ds, d), "open"), driver |-> Len(ds) + 1, launched |-> 1]

\* What login_and_get_driver goes on with when _try_cookie_login returned False
\* (lines 350-353): the sessions and its driver variable as they are, and no
\* further session launched.
AfterCookieLogin(ds, d) == [drivers |-> ds, driver |-> d, launched |-> 0]

FallThrough ==
    LET a == AfterCookieLogin(drivers, driver) IN
    /\ drivers' = a.drivers
    /\ driver' = a.driver
    /\ built' = built + a.launched
    /\ cookie' = NoCookie
    /\ cookieLogin' = "failed"
    /\ pc' = "cred_config"

\* _try_cookie_login, lines 245-254: read the stored token; an expired one is
\* deleted and an absent one skipped, both returning False; an exception of the
\* read is not caught here nor in login_and_get_driver.
CookieRead ==
    /\ pc = "try_cookie"
    /\ UNCHANGED toolVars
    /\ LET r == ReadDisk(encFiles, plainFile, decryptKey, Now) IN
       /\ readRes' = [kind |-> r.kind, cookie |-> r.cookie, expired |-> r.expired,
                      at |-> clock2, enc |-> EncExists(encFiles), plain |-> plainFile.st]
       /\ cookieDriver' = driver
       /\ CASE r.kind = "raise" ->
                 /\ pc' = "done"
                 /\ result' = "raised"
                 /\ err' = "read"
                 /\ UNCHANGED <<plainFile, cookie, drivers, driver, built, cookieLogin>>
            [] r.kind = "token" /\ r.expired ->
                 /\ plainFile' = DeleteCookieFileIfExists(encFiles, plainFile)
                 /\ FallThrough
                 /\ UNCHANGED <<result, err>>
            [] r.kind = "token" /\ ~r.expired ->
                 /\ cookie' = r.cookie
                 /\ pc' = "cookie_apply"
                 /\ UNCHANGED <<result, err, plainFile, drivers, driver, built, cookieLogin>>
            [] OTHER ->
                 /\ FallThrough
                 /\ UNCHANGED <<result, err, plainFile>>
    /\ UNCHANGED <<encFiles, decryptKey, clock2, caller, runs, url, chalRet, ret, injected,
                   cookieFailed, credDriver, landmark, lastWrite, cred, capture>>

\* _try_cookie_login, lines 256-277: open BASE_URL, add the cookie (a second time
\* without its domain when the first add raises), open HOME_URL. Any exception is
\* caught at line 310 and gives False.
CookieApply ==
    /\ pc = "cookie_apply"
    /\ UNCHANGED toolVars
    /\ \E baseOk \in BOOLEAN, added \in BOOLEAN, homeOk \in BOOLEAN, u \in Urls :
        /\ injected' = IF baseOk /\ added THEN cookie ELSE injected
        /\ IF baseOk /\ added /\ homeOk
           THEN /\ url' = u
                /\ pc' = "chal_check"
                /\ chalRet' = "cookie_verify"
                /\ UNCHANGED <<drivers, driver, built, cookie, cookieLogin>>
           ELSE /\ url' = IF baseOk THEN "normal" ELSE url
                /\ FallThrough
                /\ UNCHANGED chalRet
    /\ UNCHANGED <<store, clock2, caller, runs, result, err, ret, readRes,
                   cookieFailed, cookieDriver, credDriver, landmark, lastWrite, cred, capture>>

\* _handle_challenge_if_present, lines 209-215: read the URL once; an exception
\* ends the waiter at line 236.
ChallengeCheck ==
    /\ pc = "chal_check"
    /\ UNCHANGED toolVars
    /\ \E readOk \in BOOLEAN :
        pc' = IF readOk /\ url \in ChallengeUrls THEN "chal_poll" ELSE chalRet
    /\ UNCHANGED <<store, clock2, caller, runs, drivers, driver, url, chalRet, cookie, result,
                   err, ret, hist, built>>

\* The round as it would be if a failed URL read ended the wait.
PollNextBreakOnError(readOk, u, back) ==
    IF ~readOk \/ u \notin ChallengeUrls THEN back ELSE "chal_poll"

\* The round as it would be with the test of line 227 inverted.
PollNextInverted(readOk, u, back) ==
    IF readOk /\ u \in ChallengeUrls THEN back ELSE "chal_poll"

\* One round of the loop at lines 218-229: sleep, read the URL (a failed read
\* continues), go on polling while it starts with a challenge prefix, break
\* otherwise; after the break lines 231-235 return to the caller at `back`.
PollNext(readOk, u, back) ==
    IF readOk /\ u \notin ChallengeUrls THEN back ELSE "chal_poll"

\* One round of the loop at lines 218-229, and lines 231-235 once it breaks (the
\* wait for global-nav is best effort).
ChallengePoll ==
    /\ pc = "chal_poll"
    /\ UNCHANGED toolVars
    /\ \E readOk \in BOOLEAN : pc' = PollNext(readOk, url, chalRet)
    /\ UNCHANGED <<store, clock2, caller, runs, drivers, driver, url, chalRet, cookie, result,
                   err, ret, hist, built>>

\* The operator resolves the challenge in the browser, or the site moves from one
\* challenge page to the other.
ChallengeMoves ==
    /\ pc = "chal_poll"
    /\ UNCHANGED toolVars
    /\ url \in ChallengeUrls
    /\ \E u \in Urls \ {url} : url' = u
    /\ UNCHANGED <<store, clock2, pc, caller, runs, drivers, driver, chalRet, cookie, result,
                   err, ret, hist, built>>

\* The return as it would be if the credentials were loaded before it.
OnCookieLoginSuccessReadsConfig(c, plain, tok) ==
    [cred |-> [c EXCEPT !.read = TRUE], plain |-> plain]

\* The return as it would be if the accepted token were saved again.
OnCookieLoginSuccessResaves(c, plain, tok) ==
    [cred |-> c, plain |-> MkFile("json", MkData("dict", tok))]

\* Lines 350-351 when _try_cookie_login returned True (its lines 301-308): the
\* driver is returned with neither the environment read nor the token saved.
OnCookieLoginSuccess(c, plain, tok) == [cred |-> c, plain |-> plain]

\* _try_cookie_login, lines 280-312: read the URL, look for the account name in
\* the feed page. found is whether one of the three XPaths matched.
CookieVerify ==
    /\ pc = "cookie_verify"
    /\ UNCHANGED toolVars
    /\ \E urlOk \in BOOLEAN, found \in BOOLEAN :
        IF urlOk /\ found
        THEN LET s == OnCookieLoginSuccess(cred, plainFile, cookie) IN
             /\ pc' = "done"
             /\ result' = "returned"
             /\ cookie' = NoCookie
             /\ cookieLogin' = "succeeded"
             /\ cred' = s.cred
             /\ plainFile' = s.plain
             /\ UNCHANGED <<drivers, driver, built, cookieFailed>>
        ELSE /\ cookieFailed' = TRUE
             /\ FallThrough
             /\ UNCHANGED <<result, cred, plainFile>>
    /\ UNCHANGED <<encFiles, decryptKey, clock2, caller, runs, url, chalRet, err, ret, readRes,
                   injected, cookieDriver, credDriver, landmark, lastWrite, capture>>

\* The test as it would be if one of the two sufficed.
HasCredentialsEither(email, password) == email \/ password

\* Line 358, `if not email or not password`, negated: both are set and not empty.
HasCredentials(email, password) == email /\ password

\* login_and_get_driver, lines 354-363: EMAIL and PASSWORD from the environment;
\* without both the session is quit and RuntimeError raised.
CredConfig ==
    /\ pc = "cred_config"
    /\ UNCHANGED toolVars
    /\ credDriver' = driver
    /\ \E email \in BOOLEAN, password \in BOOLEAN :
        /\ cred' = [cred EXCEPT !.read = TRUE, !.email = email, !.password = password]
        /\ IF HasCredentials(email, password)
           THEN /\ pc' = "cred_form"
                /\ UNCHANGED <<drivers, result, err>>
           ELSE /\ drivers' = Quit(drivers, driver)
                /\ pc' = "done"
                /\ result' = "raised"
                /\ err' = "missing_creds"
    /\ UNCHANGED <<store, clock2, caller, runs, driver, url, chalRet, cookie, ret, readRes,
                   injected, cookieFailed, cookieDriver, built, landmark, lastWrite,
                   cookieLogin, capture>>

\* login_and_get_driver, lines 366-395: open the login page, fill the form, click
\* Sign in. An exception of any step goes to line 409: quit and raise wrapped.
CredSubmit ==
    /\ pc = "cred_form"
    /\ UNCHANGED toolVars
    /\ \E stepsOk \in BOOLEAN, u \in Urls :
        /\ cred' = [cred EXCEPT !.form = TRUE, !.stepRaised = ~stepsOk]
        /\ IF stepsOk
           THEN /\ url' = u
                /\ pc' = "chal_check"
                /\ chalRet' = "cred_landmark"
                /\ UNCHANGED <<drivers, result, err>>
           ELSE /\ drivers' = Quit(drivers, driver)
                /\ pc' = "done"
                /\ result' = "raised"
                /\ err' = "login_failed"
                /\ UNCHANGED <<url, chalRet>>
    /\ UNCHANGED <<store, clock2, caller, runs, driver, cookie, ret, built, readRes, injected,
                   cookieFailed, cookieDriver, credDriver, landmark, lastWrite, cookieLogin,
                   capture>>

\* What lines 398-402 make of the wait for global-nav: "go on" whether the
\* landmark appeared or the wait raised (the except clause only sleeps).
AfterLandmarkWait(seen) == "save"

\* login_and_get_driver, lines 398-402.
CredLandmark ==
    /\ pc = "cred_landmark"
    /\ UNCHANGED toolVars
    /\ \E seen \in BOOLEAN :
        /\ landmark' = IF seen THEN "seen" ELSE "missed"
        /\ pc' = AfterLandmarkWait(seen)
    /\ UNCHANGED <<store, clock2, caller, runs, drivers, driver, url, chalRet, cookie, result,
                   err, ret, readRes, injected, cookieFailed, cookieDriver, credDriver, built,
                   lastWrite, cred, cookieLogin, capture>>

\* The li_at cookies a browser can hold after the form was submitted: never one
\* that has already expired.
SessionCookies ==
    {MkCookie("dict", "B", "none", 0)}
    \cup {MkCookie("dict", "B", "num", e) : e \in {x \in ExpNums : x > clock2}}

\* What driver.get_cookies gives line 318: an exception, a jar without li_at, or
\* a jar with it.
Captures == {"raises", "no_li_at", "ok"}

\* The end of the save as it would be if the helpers' exceptions got out.
SaveEndsStrict(captured, io) ==
    IF captured = "raises" \/ io \in {"open_fails", "dump_fails"} THEN "raised" ELSE "returned"

\* How lines 405-407 end: the except clauses of lines 334-335 and 188-189 swallow
\* whatever get_cookies or the file write raised, and line 407 returns the driver.
SaveEnds(captured, io) == "returned"

\* Lines 405-407 with get_cookies giving `captured`, the browser holding li_at
\* cookie `session`, the operator answering `prompt` and the file write going as
\* `io` (recorded when open() at line 182 was reached).
SaveStep(captured, session, prompt, io) ==
    LET wrote == captured = "ok"
        after == IF wrote
                 THEN WriteDisk(encFiles, plainFile, ToStore(session), prompt, io)
                 ELSE plainFile
        ioSeen == IF wrote /\ ~EncExists(encFiles) /\ Confirms(PromptAnswer(prompt))
                  THEN io ELSE "none"
    IN
    /\ capture' = captured
    /\ plainFile' = after
    /\ lastWrite' = IF wrote
                    THEN [called |-> TRUE, enc |-> EncExists(encFiles), prompt |-> prompt,
                          changed |-> (after # plainFile), io |-> ioSeen]
                    ELSE lastWrite
    /\ IF SaveEnds(captured, ioSeen) = "returned"
       THEN /\ result' = "returned"
            /\ UNCHANGED <<drivers, err>>
       ELSE /\ drivers' = Quit(drivers, driver)
            /\ result' = "raised"
            /\ err' = "login_failed"

\* login_and_get_driver, lines 405-407: _save_current_session_cookie, then return
\* driver. get_cookies may raise or hold no li_at (nothing is written, nobody is
\* asked); the write may stop at the encrypted file or at the operator's answer
\* (the cookie and the file system play no part); or it opens cookies.json.
SaveCookie ==
    /\ pc = "save"
    /\ UNCHANGED toolVars
    /\ \/ \E captured \in Captures \ {"ok"} :
            SaveStep(captured, MkCookie("dict", "B", "none", 0), NoWrite.prompt, "ok")
       \/ \E prompt \in Prompts :
            /\ EncExists(encFiles) \/ ~Confirms(PromptAnswer(prompt))
            /\ SaveStep("ok", MkCookie("dict", "B", "none", 0), prompt, "ok")
       \/ \E prompt \in Prompts, session \in SessionCookies, io \in WriteIO :
            /\ ~EncExists(encFiles)
            /\ Confirms(PromptAnswer(prompt))
            /\ SaveStep("ok", session, prompt, io)
    /\ pc' = "done"
    /\ UNCHANGED <<encFiles, decryptKey, clock2, caller, runs, driver, url, chalRet,
                   cookie, ret, readRes, injected, cookieFailed, cookieDriver, credDriver,
                   built, landmark, cred, cookieLogin>>

\* ------------------------------------------------------------------ callers
\* login_and_get_driver has returned or raised (lines 351, 363, 407, 414): its
\* frame is gone, and with it what was recorded of the call.
CallOver ==
    /\ readRes' = NoRead
    /\ injected' = NoCookie
    /\ cookieFailed' = FALSE
    /\ cookieDriver' = 0
    /\ credDriver' = 0
    /\ landmark' = "none"
    /\ lastWrite' = NoWrite
    /\ cred' = NoCred
    /\ cookieLogin' = "none"
    /\ capture' = "none"
    /\ built' = 0
    /\ chalRet' = "none"

\* A caller that keeps the session it was given, or sees the error.
LibCaller ==
    /\ pc = "done"
    /\ UNCHANGED toolVars
    /\ caller' = "lib"
    /\ pc' = "finished"
    /\ CallOver
    /\ UNCHANGED <<store, clock2, runs, drivers, driver, url, cookie, result, err, ret>>

\* login.main, lines 417-428: on success it sleeps until interrupted and returns 0
\* leaving the browser open; on an error it returns 1.
LoginMain ==
    /\ pc = "done"
    /\ UNCHANGED toolVars
    /\ caller' = "login_main"
    /\ pc' = "finished"
    /\ ret' = IF result = "returned" THEN 0 ELSE 1
    /\ CallOver
    /\ UNCHANGED <<store, clock2, runs, drivers, driver, url, cookie, result, err>>

\* logout.main, lines 84-107: open the logout URL, wait for the logout, delete the
\* cookie file, return 0; an exception returns 1; finally quit the session main
\* holds (when login raised, main holds none).
LogoutMain ==
    /\ pc = "done"
    /\ UNCHANGED toolVars
    /\ caller' = "logout_main"
    /\ pc' = "finished"
    /\ IF result = "returned"
       THEN \E navOk \in BOOLEAN :
              /\ ret' = IF navOk THEN 0 ELSE 1
              /\ plainFile' = IF navOk THEN DeleteCookieFile(plainFile) ELSE plainFile
              /\ url' = IF navOk THEN "normal" ELSE url
              /\ drivers' = Quit(drivers, driver)
       ELSE /\ ret' = 1
            /\ UNCHANGED <<plainFile, url, drivers>>
    /\ CallOver
    /\ UNCHANGED <<encFiles, decryptKey, clock2, runs, driver, cookie, result, err>>

\* How the loop of withdraw_connections.main can end: line 390, line 366, or an
\* exception that leaves the try block.
WithdrawEnds == {"return0", "return1", "exception"}

\* withdraw_connections.main, lines 333-398: a failed login returns 1; otherwise
\* the loop ends one way or another and the finally clause sleeps 15 s and quits
\* the session; an operator interrupt during that sleep is no Exception and skips
\* the quit.
WithdrawMain ==
    /\ pc = "done"
    /\ UNCHANGED toolVars
    /\ caller' = "withdraw_main"
    /\ pc' = "finished"
    /\ IF result = "returned"
       THEN \E ends \in WithdrawEnds, interrupted \in BOOLEAN :
              /\ ret' = IF ends = "return0" /\ ~interrupted THEN 0 ELSE 1
              /\ drivers' = IF interrupted THEN drivers ELSE Quit(drivers, driver)
       ELSE /\ ret' = 1
            /\ UNCHANGED drivers
    /\ CallOver
    /\ UNCHANGED <<store, clock2, runs, driver, url, cookie, result, err>>

\* The script's process has ended and the next script may start: its sessions,
\* results and return code start afresh; the token files, the environment and the
\* clock stay.
NextRun ==
    /\ pc = "finished"
    /\ UNCHANGED toolVars
    /\ runs < MaxRuns
    /\ pc' = "idle"
    /\ caller' = "none"
    /\ drivers' = <<>>
    /\ driver' = 0
    /\ url' = "none"
    /\ cookie' = NoCookie
    /\ result' = "none"
    /\ err' = "none"
    /\ ret' = -1
    /\ UNCHANGED <<store, clock2, runs, hist, built, chalRet>>

\* Time passes: before the stored token is read, and while the waiter polls.
Tick ==
    /\ clock2 < MaxClock2
    /\ UNCHANGED toolVars
    /\ pc \in {"try_cookie", "chal_poll"}
    /\ clock2' = clock2 + 1
    /\ UNCHANGED <<store, pc, caller, runs, drivers, driver, url, chalRet, cookie, result, err,
                   ret, hist, built>>

Next ==
    \/ BuildDriver
    \/ CookieRead
    \/ CookieApply
    \/ ChallengeCheck
    \/ ChallengePoll
    \/ ChallengeMoves
    \/ CookieVerify
    \/ CredConfig
    \/ CredSubmit
    \/ CredLandmark
    \/ SaveCookie
    \/ LibCaller
    \/ LoginMain
    \/ LogoutMain
    \/ WithdrawMain
    \/ NextRun
    \/ Tick

Spec == Init /\ [][Next]_vars

\* The store of a machine that never had an encrypted token: no cookies.json, or
\* one holding a token that has not expired.
WaiterStores == {<<(<<MissingEnc, MissingEnc>>), MissingFile>>,
                 <<(<<MissingEnc, MissingEnc>>), MkFile("json", ValidTokenData)>>}

InitWaiter ==
    /\ Init
    /\ <<encFiles, plainFile>> \in WaiterStores
    /\ decryptKey = 0

\* The waiter's loop has no exit but its break and its thread is never starved:
\* a round that would leave the loop is eventually run.
SpecWaiter == InitWaiter /\ [][Next]_vars /\ WF_vars(ChallengePoll)

\* ------------------------------------------------------------------ make_connections
\* What make_connections never touches.
notMake == <<loginVars, wdVars, scVars, tmVars>>

\* A profile of scraped_connections.json: sent_request is bool(p.get('sent_request')),
\* stamped whether it carries sent_request_timestamp.
MkProfile(sr, st, v) == [sent_request |-> sr, stamped |-> st, verified |-> v]
FreshProfiles == {MkProfile(FALSE, FALSE, v) : v \in BOOLEAN}

\* The (status, message) process_profile returns; of the message, the substrings
\* main looks for: 'Connection aborted' or 'ConnectionResetError', 'Failed to
\* confirm invite', 'Unable to locate element', the confirm button's XPath.
MkOutcome(st, a, f, u, x) ==
    [status |-> st, aborted |-> a, failedConfirm |-> f, unableLocate |-> u, xpath |-> x]
NoOutcome == MkOutcome("none", FALSE, FALSE, FALSE, FALSE)
Outcomes ==
    {MkOutcome(st, FALSE, FALSE, FALSE, FALSE) : st \in {"sent", "pending", "already"}}
    \cup {MkOutcome("skipped_error", FALSE, FALSE, FALSE, FALSE),
          MkOutcome("skipped_error", TRUE, FALSE, FALSE, FALSE),
          MkOutcome("skipped_error", FALSE, TRUE, TRUE, TRUE),
          MkOutcome("skipped_error", FALSE, TRUE, FALSE, FALSE),
          MkOutcome("skipped_error", FALSE, TRUE, TRUE, FALSE)}

\* verified_matches
VerifiedMatches(v, choice) ==
    CASE choice = "yes" -> v
      [] choice = "no" -> ~v
      [] OTHER -> TRUE

\* is_network_error, lines 302-306
IsNetworkError(o) == o.status = "skipped_error" /\ o.aborted

\* is_specific_confirm_error, lines 309-315
IsSpecificConfirmError(o) ==
    o.status = "skipped_error" /\ o.failedConfirm /\ o.unableLocate /\ o.xpath

\* The mark as it would be if every status were marked as sent.
MarkedSentAlways(o) == TRUE

\* Lines 317-326: the value given to profile['sent_request'].
MarkedSent(o) == ~(IsNetworkError(o) \/ IsSpecificConfirmError(o))

\* The test as it would be with > for >=.
LoopBreaksLate(sent, max) == sent > max

\* Line 281: if sent_count >= send_max: break
LoopBreaks(sent, max) == sent >= max

\* eligible_unsent of line 259 is empty
NoneEligible(ps, choice) ==
    \A i \in 1..Len(ps) : ps[i].sent_request \/ ~VerifiedMatches(ps[i].verified, choice)

\* The script is about to run for the first time on freshly scraped profiles,
\* with some send_max_connection in config.json and some verified filter.
InitMake ==
    /\ LoginIdle
    /\ WithdrawIdle
    /\ ScrapeIdle
    /\ TimesIdle
    /\ mkPc = "start"
    /\ mkDisk \in UNION {[1..n -> FreshProfiles] : n \in 1..MaxProfiles}
    /\ profiles = <<>>
    /\ mkIdx = 0
    /\ sent_count = 0
    /\ processed = 0
    /\ send_max \in 0..MaxSend
    /\ verified_choice \in {"any", "yes", "no"}
    /\ mkRuns = 1
    /\ mkRet = -1
    /\ mkLog = [i \in 1..Len(mkDisk) |-> NoOutcome]
    /\ mkTimes = [i \in 1..Len(mkDisk) |-> 0]

\* main, lines 236-277: load config.json and scraped_connections.json (return 1
\* when either fails), return 0 when nothing is eligible, log in (return 1 when
\* that fails), then enter the loop.
MakeStart ==
    /\ mkPc = "start"
    /\ \E filesOk \in BOOLEAN, loginOk \in BOOLEAN :
        IF ~filesOk
        THEN /\ mkPc' = "ended"
             /\ mkRet' = 1
             /\ UNCHANGED <<profiles, mkIdx>>
        ELSE /\ profiles' = mkDisk
             /\ IF NoneEligible(mkDisk, verified_choice)
                THEN mkPc' = "ended" /\ mkRet' = 0 /\ UNCHANGED mkIdx
                ELSE IF ~loginOk
                THEN mkPc' = "ended" /\ mkRet' = 1 /\ UNCHANGED mkIdx
                ELSE mkPc' = "loop" /\ mkIdx' = 1 /\ UNCHANGED mkRet
    /\ UNCHANGED <<mkDisk, sent_count, processed, send_max, verified_choice, mkRuns, mkLog,
                   mkTimes, notMake>>

\* main, lines 279-282 and 345-355: the loop is exhausted or breaks at send_max;
\* the run logs, sleeps, returns 0 and quits the browser.
MakeFinish ==
    /\ mkPc = "loop"
    /\ mkIdx > Len(profiles) \/ LoopBreaks(sent_count, send_max)
    /\ mkPc' = "ended"
    /\ mkRet' = 0
    /\ UNCHANGED <<mkDisk, profiles, mkIdx, sent_count, processed, send_max, verified_choice,
                   mkRuns, mkLog, mkTimes, notMake>>

\* main, lines 284-290: a profile already marked, or which the filter leaves
\* out, is passed over.
MakeSkip ==
    /\ mkPc = "loop"
    /\ mkIdx <= Len(profiles)
    /\ ~LoopBreaks(sent_count, send_max)
    /\ \/ profiles[mkIdx].sent_request
       \/ ~VerifiedMatches(profiles[mkIdx].verified, verified_choice)
    /\ mkIdx' = mkIdx + 1
    /\ UNCHANGED <<mkPc, mkDisk, profiles, sent_count, processed, send_max, verified_choice,
                   mkRuns, mkRet, mkLog, mkTimes, notMake>>

\* main, lines 292-343: process the profile, mark and stamp it, save the list
\* (a failed save only warns), count a sent request. driver.get stands before the
\* try block of process_profile: when it raises the exception leaves main.
MakeProcess ==
    /\ mkPc = "loop"
    /\ mkIdx <= Len(profiles)
    /\ ~LoopBreaks(sent_count, send_max)
    /\ ~profiles[mkIdx].sent_request
    /\ VerifiedMatches(profiles[mkIdx].verified, verified_choice)
    /\ processed' = processed + 1
    /\ mkTimes' = [mkTimes EXCEPT ![mkIdx] = @ + 1]
    /\ \/ /\ mkPc' = "ended"
          /\ mkRet' = 2
          /\ UNCHANGED <<profiles, mkDisk, mkLog, sent_count, mkIdx>>
       \/ \E o \in Outcomes, saveOk \in BOOLEAN :
            LET updated == [profiles EXCEPT ![mkIdx].sent_request = MarkedSent(o),
                                            ![mkIdx].stamped = TRUE] IN
            /\ profiles' = updated
            /\ mkDisk' = IF saveOk THEN updated ELSE mkDisk
            /\ mkLog' = [mkLog EXCEPT ![mkIdx] = o]
            /\ sent_count' = IF o.status = "sent" THEN sent_count + 1 ELSE sent_count
            /\ mkIdx' = mkIdx + 1
            /\ UNCHANGED <<mkPc, mkRet>>
    /\ UNCHANGED <<send_max, verified_choice, mkRuns, notMake>>

\* The script is started again later: it loads what is on disk.
MakeNextRun ==
    /\ mkPc = "ended"
    /\ mkRuns < MaxMakeRuns
    /\ mkPc' = "start"
    /\ mkRuns' = mkRuns + 1
    /\ mkRet' = -1
    /\ profiles' = <<>>
    /\ mkIdx' = 0
    /\ sent_count' = 0
    /\ processed' = 0
    /\ mkLog' = [i \in 1..Len(mkDisk) |-> NoOutcome]
    /\ UNCHANGED <<mkDisk, send_max, verified_choice, mkTimes, notMake>>

NextMake ==
    \/ MakeStart
    \/ MakeFinish
    \/ MakeSkip
    \/ MakeProcess
    \/ MakeNextRun

SpecMake == InitMake /\ [][NextMake]_vars

\* ------------------------------------------------------------------ withdraw_connections
\* What withdraw_connections never touches.
notWithdraw == <<loginVars, mkVars, scVars, tmVars>>

\* An item of scraped_connections.json. dict: it is a JSON object; keys: its keys
\* in file order; sent_request: bool(p.get('sent_request')); the timestamp is
\* missing or empty ("none"), not an ISO date ("bad"), or a date given in half
\* days (ts2); withdraw: the value under 'withdraw', "none" without the key.
MkItem(d, ks, sr, tk, t, w) ==
    [dict |-> d, keys |-> ks, sent_request |-> sr, tsKind |-> tk, ts2 |-> t, withdraw |-> w]

\* The key orders found in the file: as make_connections leaves them, with the
\* timestamp first, and with a key after the timestamp.
SentKeys == <<"name", "sent_request", "sent_request_timestamp">>
StampFirstKeys == <<"sent_request_timestamp", "name", "sent_request">>
StampMiddleKeys == <<"name", "sent_request_timestamp", "sent_request">>

\* today, in half days
Today2 == 2 * MaxDays

ScrapedItems ==
    {MkItem(FALSE, <<>>, FALSE, "none", 0, "none"),
     MkItem(TRUE, <<"name">>, FALSE, "none", 0, "none"),
     MkItem(TRUE, SentKeys, FALSE, "num", 0, "none"),
     MkItem(TRUE, SentKeys, TRUE, "bad", 0, "none"),
     MkItem(TRUE, StampFirstKeys, TRUE, "num", 0, "none"),
     MkItem(TRUE, StampMiddleKeys, TRUE, "num", 0, "none"),
     MkItem(TRUE, Append(SentKeys, "withdraw"), TRUE, "num", 0, "false"),
     MkItem(TRUE, Append(SentKeys, "withdraw"), TRUE, "num", 0, "true")}
    \cup {MkItem(TRUE, SentKeys, TRUE, "num", t, "none") : t \in 0..Today2}

KeysOf(ks) == {ks[i] : i \in 1..Len(ks)}

\* out[k] = v on a dict whose keys, in order, are ks
PutKey(ks, k) == IF k \in KeysOf(ks) THEN ks ELSE Append(ks, k)

\* The insertion as it would be if the key were put at the end.
AddKeyAfterLoopAtEnd(original, after_key, new_key, out, inserted) == PutKey(original, new_key)

\* add_key_after, lines 120-128: the loop over original.items() and the final
\* `if not inserted`, on the keys.
RECURSIVE AddKeyAfterLoop(_, _, _, _, _)
AddKeyAfterLoop(original, after_key, new_key, out, inserted) ==
    IF original = <<>>
    THEN IF inserted THEN out ELSE PutKey(out, new_key)
    ELSE LET k == Head(original)
             out1 == PutKey(out, k)
         IN IF k = after_key /\ ~inserted
            THEN AddKeyAfterLoop(Tail(original), after_key, new_key, PutKey(out1, new_key), TRUE)
            ELSE AddKeyAfterLoop(Tail(original), after_key, new_key, out1, inserted)

AddKeyAfter(original, after_key, new_key) ==
    AddKeyAfterLoop(original, after_key, new_key, <<>>, FALSE)

\* Lines 317-322: elapsed_days < withdraw_after_days, where days_since gives
\* infinity for a timestamp it cannot parse.
TooRecent(item, now2, days) == item.tsKind = "num" /\ now2 - item.ts2 < 2 * days

\* The selection as it would be without the test for the 'withdraw' key.
EligibleWithKey(item, now2, days) ==
    /\ item.dict
    /\ item.sent_request
    /\ item.tsKind # "none"
    /\ ~TooRecent(item, now2, days)

\* Lines 304-323: the profile goes into eligible_indices.
Eligible(item, now2, days) ==
    /\ item.dict
    /\ item.sent_request
    /\ "withdraw" \notin KeysOf(item.keys)
    /\ item.tsKind # "none"
    /\ ~TooRecent(item, now2, days)

RECURSIVE EligibleFrom(_, _, _, _)
EligibleFrom(data, i, now2, days) ==
    IF i > Len(data) THEN <<>>
    ELSE IF Eligible(data[i], now2, days)
         THEN <<i>> \o EligibleFrom(data, i + 1, now2, days)
         ELSE EligibleFrom(data, i + 1, now2, days)

\* eligible_indices, lines 303-323
EligibleIndices(data, now2, days) == EligibleFrom(data, 1, now2, days)

\* How one call of process_withdraw and the lines after it go: driver.get raises
\* ("raised"); the Pending span is not found and there is no More button
\* ("exit"); not found but More is there, or any other failure ("failed");
\* withdrawn ("withdrawn").
Attempts == {"raised", "exit", "failed", "withdrawn"}

\* Lines 359-381: the attempt reaches add_key_after.
Marks(a) == a \in {"failed", "withdrawn"}

\* The script is about to run on some scraped_connections.json, with some
\* withdraw_connection_days_after_sending and withdraw_max_connection.
InitWithdraw ==
    /\ LoginIdle
    /\ MakeIdle
    /\ ScrapeIdle
    /\ TimesIdle
    /\ wdPc = "start"
    /\ wdDisk \in UNION {[1..n -> ScrapedItems] : n \in 1..MaxScraped}
    /\ scraped_data = <<>>
    /\ eligible_indices = <<>>
    /\ wdPos = 0
    /\ withdrawn_count = 0
    /\ withdraw_max \in 1..MaxWithdraw
    /\ withdraw_after_days \in 0..MaxDays
    /\ wdRuns = 1
    /\ wdRet = -1
    /\ wdLog = [i \in 1..Len(wdDisk) |-> "none"]
    /\ wdTried = [i \in 1..Len(wdDisk) |-> 0]
    /\ wdDirty = FALSE

\* main, lines 278-346: load config.json and scraped_connections.json (return 1
\* when either fails), compute eligible_indices, return 0 when there is none, log
\* in (return 1 when that fails), then enter the loop.
WithdrawStart ==
    /\ wdPc = "start"
    /\ \E filesOk \in BOOLEAN, loginOk \in BOOLEAN :
        IF ~filesOk
        THEN /\ wdPc' = "ended"
             /\ wdRet' = 1
             /\ UNCHANGED <<scraped_data, eligible_indices, wdPos>>
        ELSE LET el == EligibleIndices(wdDisk, Today2, withdraw_after_days) IN
             /\ scraped_data' = wdDisk
             /\ eligible_indices' = el
             /\ IF el = <<>>
                THEN wdPc' = "ended" /\ wdRet' = 0 /\ UNCHANGED wdPos
                ELSE IF ~loginOk
                THEN wdPc' = "ended" /\ wdRet' = 1 /\ UNCHANGED wdPos
                ELSE wdPc' = "loop" /\ wdPos' = 1 /\ UNCHANGED wdRet
    /\ UNCHANGED <<wdDisk, withdrawn_count, withdraw_max, withdraw_after_days, wdRuns, wdLog,
                   wdTried, wdDirty, notWithdraw>>

\* main, lines 351-353 and 389-398: the loop is exhausted or breaks at
\* withdraw_max; the run returns 0 and the browser is quit.
WithdrawFinish ==
    /\ wdPc = "loop"
    /\ wdPos > Len(eligible_indices) \/ withdrawn_count >= withdraw_max
    /\ wdPc' = "ended"
    /\ wdRet' = 0
    /\ UNCHANGED <<wdDisk, scraped_data, eligible_indices, wdPos, withdrawn_count, withdraw_max,
                   withdraw_after_days, wdRuns, wdLog, wdTried, wdDirty, notWithdraw>>

\* main, lines 355-387: one attempt. An exception of driver.get leaves main; a
\* page with neither the Pending span nor the More button ends the run with 1;
\* otherwise the profile gets its withdraw key after sent_request_timestamp and
\* the list is saved (a failed save only warns).
WithdrawProcess ==
    /\ wdPc = "loop"
    /\ wdPos <= Len(eligible_indices)
    /\ withdrawn_count < withdraw_max
    /\ LET idx == eligible_indices[wdPos] IN
       \E a \in Attempts, saveOk \in BOOLEAN :
        /\ wdTried' = [wdTried EXCEPT ![idx] = @ + 1]
        /\ wdLog' = [wdLog EXCEPT ![idx] = a]
        /\ IF Marks(a)
           THEN LET updated ==
                      [scraped_data EXCEPT
                         ![idx].keys = AddKeyAfter(@, "sent_request_timestamp", "withdraw"),
                         ![idx].withdraw = IF a = "withdrawn" THEN "true" ELSE "false"]
                IN /\ scraped_data' = updated
                   /\ wdDisk' = IF saveOk THEN updated ELSE wdDisk
                   /\ wdDirty' = ~saveOk
                   /\ withdrawn_count' = IF a = "withdrawn" THEN withdrawn_count + 1
                                         ELSE withdrawn_count
                   /\ wdPos' = wdPos + 1
                   /\ UNCHANGED <<wdPc, wdRet>>
           ELSE /\ wdPc' = "ended"
                /\ wdRet' = IF a = "raised" THEN 2 ELSE 1
                /\ UNCHANGED <<scraped_data, wdDisk, wdDirty, withdrawn_count, wdPos>>
    /\ UNCHANGED <<eligible_indices, withdraw_max, withdraw_after_days, wdRuns, notWithdraw>>

\* The script is started again on the same day: it loads what is on disk.
WithdrawNextRun ==
    /\ wdPc = "ended"
    /\ wdRuns < MaxWithdrawRuns
    /\ wdPc' = "start"
    /\ wdRuns' = wdRuns + 1
    /\ wdRet' = -1
    /\ scraped_data' = <<>>
    /\ eligible_indices' = <<>>
    /\ wdPos' = 0
    /\ withdrawn_count' = 0
    /\ wdLog' = [i \in 1..Len(wdDisk) |-> "none"]
    /\ wdDirty' = FALSE
    /\ UNCHANGED <<wdDisk, withdraw_max, withdraw_after_days, wdTried, notWithdraw>>

NextWithdraw ==
    \/ WithdrawStart
    \/ WithdrawFinish
    \/ WithdrawProcess
    \/ WithdrawNextRun

SpecWithdraw == InitWithdraw /\ [][NextWithdraw]_vars

\* ------------------------------------------------------------------ scrape_connections
notScrape == <<loginVars, mkVars, wdVars, tmVars>>

\* Stop after this many consecutive pages with no results.
MAX_EMPTY_PAGES == 3

\* What one pass of the page loop found: processed_in_page (0: nothing appended,
\* 1: at least one profile appended) and whether _save_page_html returned a path.
MkPage(found, saved) == [processed_in_page |-> found, html_path |-> saved]

\* Lines 611-622: empty_page_count after a page.
CountAfterPage(count, found, saved) ==
    IF found > 0 /\ saved THEN 0
    ELSE IF found = 0 THEN count + 1
    ELSE count

\* The steps of the headless login of _ensure_logged_in_driver, in order.
\* "build" is _build_driver, "navigation" driver.get(LOGIN_URL), "credentials"
\* the EMAIL/PASSWORD test, "form" the two fields, "submit" the sign-in button.
LoginSteps == {"build", "navigation", "credentials", "form", "submit"}

\* The browser after step `failed` of the headless login raised: the except clause
\* at lines 191-196 quits it, and covers lines 143-190 only.
BrowserAfterFailure(failed) ==
    CASE failed = "build" -> "none"
      [] failed = "navigation" -> "open"
      [] OTHER -> "quit"

InitScrape ==
    /\ LoginIdle
    /\ MakeIdle
    /\ WithdrawIdle
    /\ TimesIdle
    /\ scPc = "start"
    /\ headless \in BOOLEAN
    /\ scBrowser = "none"
    /\ scDriver = FALSE
    /\ scrape_pages = 0
    /\ page = 0
    /\ empty_page_count = 0
    /\ pageLog = <<>>
    /\ scEnd = "none"
    /\ scErr = "none"

\* The finally clause of scrape, lines 633-639, and the end of the function.
ScrapeEnds(how, why) ==
    /\ scPc' = "ended"
    /\ scEnd' = how
    /\ scErr' = why
    /\ scBrowser' = IF scDriver /\ scBrowser = "open" THEN "quit" ELSE scBrowser

\* scrape, lines 464-474: the configuration. A config.json that cannot be read, a
\* scrape_pages that is no integer and a missing search_url raise before the try.
ScrapeStart ==
    /\ scPc = "start"
    /\ \E cfg \in {"ok", "config", "search_url"}, pages \in 0..MaxPages :
          IF cfg = "ok"
          THEN /\ scPc' = "login"
               /\ scrape_pages' = pages
               /\ UNCHANGED <<scBrowser, scEnd, scErr>>
          ELSE /\ ScrapeEnds("raised", cfg)
               /\ UNCHANGED scrape_pages
    /\ UNCHANGED <<headless, scDriver, page, empty_page_count, pageLog, notScrape>>

\* _ensure_logged_in_driver called at line 479. Without headless it hands over to
\* login_and_get_driver; with it, it builds a browser, tries the cookie login
\* (whose exceptions are swallowed) and then logs in with the form. When it raises,
\* driver of scrape is still None and the finally clause quits nothing.
EnsureLoggedInDriver ==
    /\ scPc = "login"
    /\ \/ /\ ~headless
          /\ \E ok \in BOOLEAN :
                IF ok
                THEN /\ scBrowser' = "open"
                     /\ scDriver' = TRUE
                     /\ scPc' = "first"
                     /\ UNCHANGED <<scEnd, scErr>>
                ELSE /\ scPc' = "ended"
                     /\ scEnd' = "raised"
                     /\ scErr' = "login"
                     /\ UNCHANGED <<scBrowser, scDriver>>
       \/ /\ headless
          /\ \E failed \in LoginSteps \cup {"none"}, reused \in BOOLEAN :
                IF failed = "none" \/ (failed # "build" /\ reused)
                THEN /\ scBrowser' = "open"
                     /\ scDriver' = TRUE
                     /\ scPc' = "first"
                     /\ UNCHANGED <<scEnd, scErr>>
                ELSE /\ scBrowser' = BrowserAfterFailure(failed)
                     /\ scPc' = "ended"
                     /\ scEnd' = "raised"
                     /\ scErr' = failed
                     /\ UNCHANGED scDriver
    /\ UNCHANGED <<headless, scrape_pages, page, empty_page_count, pageLog, notScrape>>

\* scrape, lines 480-495: the stored results are loaded and page 1 is opened.
ScrapeOpenFirst ==
    /\ scPc = "first"
    /\ \E ok \in BOOLEAN :
          IF ok
          THEN /\ scPc' = "pages"
               /\ page' = 1
               /\ UNCHANGED <<scBrowser, scEnd, scErr>>
          ELSE /\ ScrapeEnds("raised", "first")
               /\ UNCHANGED page
    /\ UNCHANGED <<headless, scDriver, scrape_pages, empty_page_count, pageLog, notScrape>>

\* One pass of the for loop, lines 495-630. raised: opening the page or writing
\* the results raised.
ScrapePage ==
    /\ scPc = "pages"
    /\ page <= scrape_pages
    /\ \E raised \in BOOLEAN, found \in 0..1, saved \in BOOLEAN :
          IF raised
          THEN /\ ScrapeEnds("raised", "page")
               /\ UNCHANGED <<page, empty_page_count, pageLog>>
          ELSE LET count == CountAfterPage(empty_page_count, found, saved) IN
               /\ pageLog' = Append(pageLog, MkPage(found, saved))
               /\ empty_page_count' = count
               /\ IF found = 0 /\ count >= MAX_EMPTY_PAGES
                  THEN /\ ScrapeEnds("early", "none")
                       /\ UNCHANGED page
                  ELSE /\ page' = page + 1
                       /\ UNCHANGED <<scPc, scBrowser, scEnd, scErr>>
    /\ UNCHANGED <<headless, scDriver, scrape_pages, notScrape>>

\* The for loop is exhausted: lines 631-639.
ScrapeFinish ==
    /\ scPc = "pages"
    /\ page > scrape_pages
    /\ ScrapeEnds("complete", "none")
    /\ UNCHANGED <<headless, scDriver, scrape_pages, page, empty_page_count, pageLog, notScrape>>

NextScrape ==
    \/ ScrapeStart
    \/ EnsureLoggedInDriver
    \/ ScrapeOpenFirst
    \/ ScrapePage
    \/ ScrapeFinish

SpecScrape == InitScrape /\ [][NextScrape]_vars

\* ------------------------------------------------------------------ timing
notTimes == <<loginVars, mkVars, wdVars, scVars>>

\* max_attempts of generate_times: the model gives the loop MaxAttempts passes.
max_attempts == MaxAttempts

\* The least distance in minutes between two times.
MinGap == 15

\* The values random.randint(2, 22) and random.randint(0, 59) are drawn from.
Hours == {2, 3, 22}
Minutes == {0, 14, 15, 59}

Abs(x) == IF x < 0 THEN -x ELSE x

\* hour * 60 + minute of a (minute, hour) pair.
TotalMin(t) == t[2] * 60 + t[1]

\* The test of line 17 as it would be if only the minutes were compared.
FarFromAllByMinute(total_min, ts) ==
    \A i \in 1..Len(ts) : Abs((total_min % 60) - ts[i][1]) >= MinGap

\* all(abs(total_min - (h * 60 + m)) >= 15 for h, m in times)
FarFromAll(total_min, ts) ==
    \A i \in 1..Len(ts) : Abs(total_min - TotalMin(ts[i])) >= MinGap

InitTimes ==
    /\ LoginIdle
    /\ MakeIdle
    /\ WithdrawIdle
    /\ ScrapeIdle
    /\ tmPc = "loop"
    /\ tmN \in 0..MaxN
    /\ times = <<>>
    /\ attempts = 0

\* One pass of the while loop, lines 13-19.
TimesDraw ==
    /\ tmPc = "loop"
    /\ Len(times) < tmN
    /\ attempts < max_attempts
    /\ \E minute \in Minutes, hour \in Hours :
          LET total_min == hour * 60 + minute IN
          times' = IF FarFromAll(total_min, times)
                   THEN Append(times, <<minute, hour>>)
                   ELSE times
    /\ attempts' = attempts + 1
    /\ UNCHANGED <<tmPc, tmN, notTimes>>

\* The loop has ended, lines 20-22: ValueError or the list.
TimesEnd ==
    /\ tmPc = "loop"
    /\ ~(Len(times) < tmN /\ attempts < max_attempts)
    /\ tmPc' = IF Len(times) < tmN THEN "raised" ELSE "returned"
    /\ UNCHANGED <<tmN, times, attempts, notTimes>>

NextTimes ==
    \/ TimesDraw
    \/ TimesEnd

SpecTimes == InitTimes /\ [][NextTimes]_vars

\* ------------------------------------------------------------------ claims
\* C1: every termination of login_and_get_driver either returns a live session or
\* raises with every session it built already quit.
C1_TerminalContract ==
    pc = "done" =>
        \/ result = "returned" /\ driver # 0 /\ drivers[driver] = "open"
        \/ result = "raised" /\ \A i \in 1..Len(drivers) : drivers[i] = "quit"

\* C2: on the credential-login path a session is returned only if global-nav was
\* observed after the form was submitted; when it is missed the session is quit
\* and an error raised.
C2_ReturnedOnlyWithLandmark ==
    (pc = "done" /\ landmark # "none") =>
        IF landmark = "seen" THEN result = "returned"
        ELSE result = "raised" /\ drivers[driver] = "quit"

\* C3: a token handed to driver.add_cookie is the token the read returned, was
\* classified not expired, and its expiry was not in the past when it was read.
InThePast(c, t2) == c.expKind = "num" /\ c.exp2 < t2

C3_OnlyValidTokenInjected ==
    injected # NoCookie =>
        /\ readRes.kind = "token"
        /\ ~readRes.expired
        /\ injected = readRes.cookie
        /\ ~InThePast(injected, readRes.at)

C3_Witness == injected # NoCookie /\ injected.expKind = "num"

\* C4: _read_session_cookie_from_disk never raises.
C4_ReadNeverRaises == readRes.kind # "raise"

\* C5: when an encrypted file exists and cannot be decrypted, the read returns no
\* token.
Undecryptable(encs, key) ==
    /\ EncExists(encs)
    /\ \/ key = 0
       \/ encs[TargetPath(encs)].st \in {"garbage", "emptyfields", "tampered"}
       \/ encs[TargetPath(encs)].key # key

C5_FailsClosed ==
    (readRes.kind # "none" /\ Undecryptable(encFiles, decryptKey)) => readRes.kind # "token"

\* C6: a write made while an encrypted file exists, under either name, leaves the
\* plaintext file as it was, whatever the operator would answer.
C6_NoPlaintextBesideEncrypted == (lastWrite.called /\ lastWrite.enc) => ~lastWrite.changed

C6_Witness ==
    /\ lastWrite.called
    /\ lastWrite.enc
    /\ encFiles[1].st = "missing"
    /\ lastWrite.prompt.text = <<"y">>

\* C7: with no encrypted file, a write changes the plaintext file only when the
\* operator answered y or yes (in any case, blanks around it ignored); a failed
\* prompt, an empty or any other answer leaves it unchanged.
Affirmative == {<<"y">>, <<"Y", "e", "S">>, <<" ", "y", " ">>}

C7_PlaintextOnlyAfterConfirmation ==
    (lastWrite.called /\ ~lastWrite.enc /\ lastWrite.changed) =>
        ~lastWrite.prompt.raised /\ lastWrite.prompt.text \in Affirmative

C7_Witness ==
    /\ lastWrite.called
    /\ ~lastWrite.enc
    /\ lastWrite.changed
    /\ lastWrite.prompt.text = <<"Y", "e", "S">>

\* C8: once the stored token was found expired, a read made before credential
\* login writes anything returns Absent.
C8_ExpiredTokenDeleted ==
    (readRes.kind = "token" /\ readRes.expired /\ pc \in {"cred_config", "cred_form"}) =>
        ReadDisk(encFiles, plainFile, decryptKey, Now).kind = "absent"

\* C9: after logout.main returned 0, a read of the Credential Store returns Absent.
C9_LogoutDeletesToken ==
    (pc = "finished" /\ caller = "logout_main" /\ ret = 0) =>
        ReadDisk(encFiles, plainFile, decryptKey, Now).kind = "absent"

\* C10 as stated: after a cookie login with a valid token failed verification, the
\* session it ran in is closed and credential login runs in another session.
C10_SecondSession ==
    (cookieFailed /\ credDriver # 0) =>
        drivers[cookieDriver] = "quit" /\ credDriver # cookieDriver

\* C10 as amended: after a cookie login with a valid token failed verification,
\* credential login starts in the same session, still open, and the call has built
\* no other session.
C10_SameSession ==
    (cookieFailed /\ pc \in {"cred_config", "cred_form"}) =>
        /\ driver = cookieDriver
        /\ drivers[driver] = "open"
        /\ built = 1
        /\ Len(drivers) = 1

C10_Witness == cookieFailed /\ pc = "cred_form" /\ credDriver = cookieDriver

\* C11: when the cookie login did not succeed and EMAIL or PASSWORD is missing,
\* login_and_get_driver ends raising the missing-credentials error, with the login
\* form never attempted, no further session built and every session quit.
C11_MissingCredentialsFail ==
    (cred.read /\ ~(cred.email /\ cred.password)) =>
        /\ pc = "done"
        /\ cookieLogin = "failed"
        /\ result = "raised"
        /\ err = "missing_creds"
        /\ ~cred.form
        /\ landmark = "none"
        /\ built = 1
        /\ \A i \in 1..Len(drivers) : drivers[i] = "quit"

C11_Witness == pc = "done" /\ cred.read /\ cred.email /\ ~cred.password

\* C12: when a step of the credential login raised (opening the page, filling or
\* submitting the form, the wait for the global-nav landmark), login_and_get_driver
\* ends raising the wrapped error with the session quit, and returns no session.
C12_StepFailureRaises ==
    (pc = "done" /\ (cred.stepRaised \/ landmark = "missed")) =>
        /\ result = "raised"
        /\ err = "login_failed"
        /\ drivers[driver] = "quit"

FreshCredentialSuccess ==
    /\ pc = "done"
    /\ result = "returned"
    /\ cred.form
    /\ landmark = "seen"
    /\ ~readRes.enc
    /\ readRes.plain = "missing"

Confirmed == lastWrite.called /\ Confirms(PromptAnswer(lastWrite.prompt))

SaveFailed ==
    \/ capture = "raises"
    \/ lastWrite.called /\ lastWrite.prompt.raised
    \/ lastWrite.io \in {"open_fails", "dump_fails"}

C16_SaveFailureNotFatal ==
    (pc = "done" /\ SaveFailed) =>
        /\ result = "returned"
        /\ driver # 0
        /\ drivers[driver] = "open"

C16_Witness == pc = "done" /\ lastWrite.io = "dump_fails" /\ result = "returned"

\* C17: while the waiter polls, a round leaves the loop only to return to the
\* waiter's caller, never raising, and never while the URL is a challenge URL.
C17_PollsWhileChallenge ==
    [][pc = "chal_poll" =>
          /\ pc' \in {"chal_poll", chalRet}
          /\ result' = "none"
          /\ url \in ChallengeUrls => pc' = "chal_poll"]_vars

C17_Witness ==
    /\ pc = "chal_poll"
    /\ url = "chalV2"
    /\ readRes.kind # "none"
    /\ clock2 > readRes.at

EntryPoints == {"login_main", "logout_main", "withdraw_main"}

C19_SessionReleased ==
    (pc = "finished" /\ caller \in EntryPoints /\ result = "returned") =>
        drivers[driver] = "quit"

\* C21: the read classifies a stored token by the reference rule: Expired exactly
\* when it has a numeric expiry that is not after the clock, Valid otherwise.
C21_ReferenceClassification ==
    readRes.kind = "token" =>
        (readRes.expired <=> (readRes.cookie.expKind = "num" /\ readRes.cookie.exp2 <= readRes.at))

\* The encrypted file the read targets is an intact blob made with the configured
\* secret.
Decrypts(encs, key) ==
    /\ TargetPath(encs) # 0
    /\ key # 0
    /\ encs[TargetPath(encs)].st = "blob"
    /\ encs[TargetPath(encs)].key = key

\* C22: when the encrypted file decrypts, the read gives what it would give with
\* no plaintext file at all.
C22_EncryptedAlone ==
    (readRes.kind # "none" /\ Decrypts(encFiles, decryptKey)) =>
        MkRead(readRes.kind, readRes.cookie, readRes.expired)
            = ReadDisk(encFiles, MissingFile, decryptKey, IntOf(readRes.at))

\* Connection requests sent in the current run of make_connections.
SentRequests == Cardinality({i \in 1..Len(mkLog) : mkLog[i].status = "sent"})

\* C23: in a run of make_connections.main the requests sent never exceed
\* send_max_connection, and a profile is processed only while fewer than that
\* have been sent.
C23_SendMaxRespected ==
    /\ [](SentRequests <= send_max)
    /\ [][processed' > processed => SentRequests < send_max]_vars

C23_Witness ==
    /\ mkPc = "ended"
    /\ mkRet = 0
    /\ send_max = 1
    /\ SentRequests = 1
    /\ mkIdx <= Len(profiles)
    /\ ~profiles[mkIdx].sent_request

Exempt(o) ==
    \/ o.aborted
    \/ o.failedConfirm /\ o.unableLocate /\ o.xpath

C24_AttemptedOnlyWhenDue ==
    \A i \in 1..Len(wdLog) :
        wdLog[i] # "none" =>
            /\ scraped_data[i].sent_request
            /\ scraped_data[i].tsKind = "num"
            /\ Today2 - scraped_data[i].ts2 >= 2 * withdraw_after_days

\* C24 as amended: a profile on which a withdrawal was attempted has sent_request
\* true and a timestamp that is either at least the configured number of days old
\* or not a date at all; and no attempt is made on a profile that carries a
\* 'withdraw' key, in memory or on disk.
C24_AttemptedOnlyWhenDueOrUndated ==
    /\ [](\A i \in 1..Len(wdLog) :
            wdLog[i] # "none" =>
                /\ scraped_data[i].dict
                /\ scraped_data[i].sent_request
                /\ scraped_data[i].tsKind # "none"
                /\ scraped_data[i].tsKind = "num" =>
                       Today2 - scraped_data[i].ts2 >= 2 * withdraw_after_days)
    /\ [][\A i \in 1..Len(wdTried) :
            wdTried'[i] > wdTried[i] =>
                /\ "withdraw" \notin KeysOf(scraped_data[i].keys)
                /\ wdDisk[i].withdraw = "none"]_vars

C24_Witness ==
    \E i \in 1..Len(wdLog) :
        /\ wdRuns = 2
        /\ wdPc = "ended"
        /\ wdRet = 0
        /\ wdTried[i] = 1
        /\ wdLog[i] = "none"
        /\ wdDisk[i].withdraw = "false"
        /\ wdDisk[i].tsKind = "bad"

\* 'withdraw' stands directly after 'sent_request_timestamp'.
DirectlyAfterStamp(ks) ==
    \E j \in 1..(Len(ks) - 1) : ks[j] = "sent_request_timestamp" /\ ks[j + 1] = "withdraw"

\* The value the key should have after attempt a.
Outcome(a) == IF a = "withdrawn" THEN "true" ELSE "false"

BlobHoldsExpired(at) ==
    \E i \in 1..2 :
        /\ encFiles[i].st = "blob"
        /\ encFiles[i].data.shape = "dict"
        /\ encFiles[i].data.li_at.kind = "dict"
        /\ encFiles[i].data.li_at.val # "absent"
        /\ encFiles[i].data.li_at.expKind = "num"
        /\ encFiles[i].data.li_at.exp2 <= at

RECURSIVE TrailingEmpty(_)
TrailingEmpty(log) ==
    IF log = <<>> \/ log[Len(log)].processed_in_page > 0 THEN 0
    ELSE 1 + TrailingEmpty(SubSeq(log, 1, Len(log) - 1))

\* C27: scrape stops early only after MAX_EMPTY_PAGES consecutive pages without a
\* profile, and after every page that yielded a profile the empty-page counter is
\* zero, whether or not the page's HTML snapshot was saved.
C27_StopsAfterConsecutiveEmptyPages ==
    /\ scEnd = "early" => TrailingEmpty(pageLog) >= MAX_EMPTY_PAGES
    /\ (pageLog # <<>> /\ pageLog[Len(pageLog)].processed_in_page > 0) => empty_page_count = 0

\* C29: when a step of the headless login after the browser was built raises, the
\* browser is quit, and scrape never ends with the browser it obtained still open.
C29_BrowserQuitOnLoginFailure ==
    scPc = "ended" =>
        /\ (headless /\ scErr \in LoginSteps \ {"build"}) => scBrowser = "quit"
        /\ scBrowser # "open"

====
